---- MODULE Spec2Model ----
(***************************************************************************)
(* Model of the admin back office: the real-time screens (Dashboard,       *)
(* OrderManagement, MenuManagement of the src variant and OrderManagement  *)
(* of the app variant) with the table they watch, and the session resolver *)
(* (AuthProvider) with the access guard (AdminRouteGuard, hasPermission).  *)
(*                                                                         *)
(* One screen instance is modelled at a time (its kind is drawn in Init):  *)
(* screens share no state except the backing store.  A network call is     *)
(* three steps: the request is sent by the handler, the store answers it   *)
(* (the snapshot is taken then), and the response resumes the handler.     *)
(***************************************************************************)
EXTENDS Integers, Sequences, FiniteSets, TLC

\* ------------------------------------------------------------------ bounds
MaxRows == 2        \* rows ever inserted into the watched table
MaxWrites == 3      \* writes committed to the watched table
MaxMounts == 2      \* effect runs (mount, remount) of the screen instance
MaxDup == 1         \* change events delivered a second time
MaxInflight == 2    \* fetches in flight at once (app variant has no guard)
MaxEvents == 2      \* session events the identity store emits
MaxRoleWrites == 1  \* writes to the users table
MaxProfileFetches == 2  \* profile fetches in flight at once
MaxTableRows == 1   \* rows of menu_items, and of orders, at once
MaxSignIns == 2     \* sign-ins submitted in one behaviour
MaxProviderMounts == 2  \* runs of the resolver's effect
MaxStatusUpdates == 1  \* updateOrderStatus calls in one behaviour

\* Dashboard.tsx: .limit(5) of the recent-orders query
RecentLimit == 5

SrcKinds == {"Dashboard", "OrderManagement", "MenuManagement"}
AppKinds == {"OrderManagementApp"}
Statuses == {"pending", "completed"}

VARIABLES
    \* --- the screen instance
    screen,            \* which component this instance is
    mounted,           \* React: the effect has run and its cleanup has not
    mounts,            \* number of effect runs so far
    mountedRef,        \* useRef(true)
    isFetchingRef,     \* useRef(false)
    channelRef,        \* useRef(null) / the effect's subscription constant
    debounceTimerRef,  \* useRef(null), Dashboard only
    list,              \* orders / menuItems / stats.recentOrders
    unreadCount,       \* OrderManagement (src)
    loading,           \* useState(true)
    notifications,     \* addNotification / toast calls made so far
    filter,            \* OrderManagement (app): useState<string>('all')
    \* --- the environment of the screen
    channels,          \* channels subscribed and not unsubscribed
    nextChannel,       \* channels created so far
    timers,            \* timers set and neither fired nor cleared
    store,             \* the watched table, newest row first
    nextId,            \* rows inserted so far
    writes,            \* writes committed so far
    queue,             \* change events on their way to the channels
    dups,              \* events delivered twice so far
    fetches,           \* full reads of the table in flight
    \* --- history, read only by the properties
    hist,              \* the last two events the list handlers applied
    failed,            \* a fetch response carried an error
    seenCompleted,     \* ids whose UPDATE to completed reached the handler
    \* --- the session resolver (AuthProvider) and the guard
    session,           \* identity store: the user of the current session
    users,             \* users table: the role of each identity's row
    user,              \* useState<User | null>(null)
    userProfile,       \* useState<UserProfile | null>(null)
    authLoading,       \* AuthProvider: useState(true)
    initPending,       \* getInitialSession awaits getSession()
    profileFetches,    \* fetchUserProfile calls in flight
    hasAccess,         \* AdminRouteGuard: useState(false), per requiredRole
    guardPending,      \* the guard's effect has yet to run for its new deps
    events,            \* session events emitted so far
    roleWrites,        \* writes to the users table so far
    \* --- history, read only by the properties
    downgrade,         \* "written": the resolved admin's role was lowered;
                       \* "notified": and a session event for them arrived since
    \* --- the data layer of the app variant (tables under row level security)
    identities,        \* auth.users: the ids of the identities
    profiles,          \* rows of table profiles
    menu_items,        \* rows of table menu_items
    orders,            \* rows of table orders
    call,              \* the last statement: who issued it, what, rows changed
    \* --- the admin pages of the src variant
    activeTab,         \* AdminPanel: useState('dashboard')
    signIn,            \* AdminLogin's handleSubmit inside AuthProvider.signIn
    \* --- order status updates
    statusUpdates,     \* updateOrderStatus calls in flight
    \* --- the lifetime of the session resolver
    providerMounted,   \* the resolver's effect has run and its cleanup has not
    providerMounts,    \* runs of the resolver's effect so far
    listeners,         \* identity store: session-change listeners registered
    \* --- the session resolver of the app variant (AdminPage)
    isAuthenticated,   \* AdminPage: useState(false)
    checkAuth,         \* AdminPage.checkAuth: where the call stands
    \* --- AdminApp (src variant)
    showLogin,         \* AdminApp: useState(true)
    appDeps,           \* [user, userProfile, loading] at the last run of
                       \* AdminApp's effect
    loginDue,          \* AdminLogin was mounted by a render that left
                       \* AdminApp's dependencies alone: its effect is due
    \* --- UserManagement (src variant)
    userList,          \* users: the role of each fetched row
    showAddUser,       \* the form is open
    editingUser,       \* the row handed to handleEdit, or None
    formData,          \* the form's fields (the role selector)
    roleTouched,       \* the role selector was changed since the form opened
    userSubmit,        \* handleSubmit: where the call stands
    \* --- history, read only by the properties
    awaitingRefresh    \* Dashboard: a change event reached the handler of the
                       \* mounted screen and no fetchDashboardData run has
                       \* started since

svars == <<screen, mounted, mounts, mountedRef, isFetchingRef, channelRef,
           debounceTimerRef, list, unreadCount, loading, notifications, filter,
           channels, nextChannel, timers, store, nextId, writes, queue, dups, fetches,
           hist, failed, seenCompleted>>

avars == <<session, users, user, userProfile, authLoading, initPending,
           profileFetches, hasAccess, guardPending, events, roleWrites,
           downgrade>>

dvars == <<identities, profiles, menu_items, orders, call>>

pvars == <<activeTab, signIn>>

rvars == <<statusUpdates, providerMounted, providerMounts, listeners,
           isAuthenticated, checkAuth>>

gvars == <<showLogin, appDeps, loginDue>>

fvars == <<userList, showAddUser, editingUser, formData, roleTouched,
           userSubmit>>

xvars == <<rvars, awaitingRefresh, gvars, fvars>>

vars == <<svars, avars, dvars, pvars, xvars>>

\* ------------------------------------------------------------------ rows
OrderRow(i, s, r) == [id |-> i, status |-> s, is_read |-> r]
MenuRow(i, a) == [id |-> i, is_available |-> a]

IsOrders == screen # "MenuManagement"
IsList == screen \in {"OrderManagement", "MenuManagement"}

HasId(l, i) == \E k \in DOMAIN l : l[k].id = i
CountId(l, i) == Cardinality({k \in DOMAIN l : l[k].id = i})
RowsOf(l) == {l[k] : k \in DOMAIN l}

\* ------------------------------------------------ list handlers (pure part)
\* setOrders(prev => [payload.new, ...prev])
InsertRow(prev, new) == <<new>> \o prev

\* variant: the map returns the row it was given for every element
UpdateRowKeep(prev, new) == prev

\* prev.map(order => order.id === payload.new.id ? payload.new : order)
UpdateRow(prev, new) ==
    [k \in DOMAIN prev |-> IF prev[k].id = new.id THEN new ELSE prev[k]]

\* variant: prev.splice(prev.findIndex(...), 1), which drops the last row
\* when the id is absent (findIndex returns -1)
DeleteRowSplice(prev, old) ==
    IF HasId(prev, old.id)
    THEN SelectSeq(prev, LAMBDA r : r.id # old.id)
    ELSE SubSeq(prev, 1, Len(prev) - 1)

\* prev.filter(order => order.id !== payload.old.id)
DeleteRow(prev, old) == SelectSeq(prev, LAMBDA r : r.id # old.id)

\* data.filter(o => !o.is_read).length
Unread(l) == Len(SelectSeq(l, LAMBDA o : ~o.is_read))

\* .order('created_at', {ascending: false}).limit(5)
Recent(l) == SubSeq(l, 1, IF Len(l) < RecentLimit THEN Len(l) ELSE RecentLimit)

\* ------------------------------------------------------------ environment
\* supabase.channel(name)...subscribe()
Subscribed(c) == channels \cup {c}

\* variant: the cleanup drops its reference and leaves the channel subscribed
UnsubscribedLeak(c) == channels

\* channel.unsubscribe()
Unsubscribed(c) == channels \ {c}

\* variant: the cleanup forgets the timer id and leaves the timer pending
ClearTimeoutNoop(ts, t) == ts

\* clearTimeout(id): a fired or cleared id is ignored
ClearTimeout(ts, t) == ts \ {t}

\* setTimeout(...): the id of the new timer, unused by every pending timer
SetTimeout(ts) == CHOOSE t \in 1..(Cardinality(ts) + 1) : t \notin ts

\* one copy of a committed change per subscribed channel, lowest channel first
RECURSIVE Emit(_, _)
Emit(cs, ev) ==
    IF cs = {} THEN <<>>
    ELSE LET c == CHOOSE x \in cs : \A y \in cs : x <= y
         IN  <<[ch |-> c, ev |-> ev]>> \o Emit(cs \ {c}, ev)

Sent == [st |-> "sent", error |-> FALSE, recentError |-> FALSE, data |-> <<>>]

RemoveAt(s, k) == [j \in 1..(Len(s) - 1) |-> IF j < k THEN s[j] ELSE s[j + 1]]

Remember(e) == IF Len(hist) = 2 THEN <<hist[2], e>> ELSE Append(hist, e)

\* ------------------------------------------------------------------ fetch
\* fetchOrders / fetchMenuItems / fetchDashboardData up to the first await;
\* m is mountedRef.current at the call.  The app variant has no guard.
StartFetch(m) ==
    IF screen = "OrderManagementApp"
    THEN /\ fetches' = Append(fetches, Sent)
         /\ UNCHANGED isFetchingRef
    ELSE IF isFetchingRef \/ ~m
         THEN UNCHANGED <<fetches, isFetchingRef>>
         ELSE /\ isFetchingRef' = TRUE
              /\ fetches' = Append(fetches, Sent)

Room == screen = "OrderManagementApp" => Len(fetches) < MaxInflight

\* ------------------------------------------------------------------ state
InitKind(kinds) ==
    /\ screen \in kinds
    /\ mounted = FALSE
    /\ mounts = 0
    /\ mountedRef = TRUE
    /\ isFetchingRef = FALSE
    /\ channelRef = 0
    /\ debounceTimerRef = 0
    /\ list = <<>>
    /\ unreadCount = 0
    /\ loading = (screen # "MenuManagement")
    /\ notifications = 0
    /\ filter = "all"
    /\ channels = {}
    /\ nextChannel = 0
    /\ timers = {}
    /\ store = <<>>
    /\ nextId = 0
    /\ writes = 0
    /\ queue = <<>>
    /\ dups = 0
    /\ fetches = <<>>
    /\ hist = <<>>
    /\ failed = FALSE
    /\ seenCompleted = {}
    /\ awaitingRefresh = FALSE

\* ----------------------------------------------------------- the effect
\* useEffect(() => { mountedRef.current = true; fetch(); if (!channelRef.current) ... }, [])
Mount ==
    /\ ~mounted
    /\ mounts < MaxMounts
    /\ Room
    /\ mounted' = TRUE
    /\ mounts' = mounts + 1
    /\ mountedRef' = TRUE
    /\ StartFetch(TRUE)
    /\ IF channelRef = 0
       THEN /\ nextChannel' = nextChannel + 1
            /\ channelRef' = nextChannel + 1
            /\ channels' = Subscribed(nextChannel + 1)
       ELSE UNCHANGED <<nextChannel, channelRef, channels>>
    /\ awaitingRefresh' = (awaitingRefresh /\ fetches' = fetches)
    /\ UNCHANGED <<rvars, gvars, fvars, pvars, dvars, avars, screen, filter, notifications, debounceTimerRef, list, unreadCount, loading, timers,
                   store, nextId, writes, queue, dups, hist, failed,
                   seenCompleted>>

\* return () => { mountedRef.current = false; clearTimeout; unsubscribe; channelRef.current = null }
Cleanup ==
    /\ mounted
    /\ mounted' = FALSE
    /\ mountedRef' = (IF screen = "OrderManagementApp" THEN mountedRef ELSE FALSE)
    /\ IF screen = "Dashboard" /\ debounceTimerRef # 0
       THEN /\ timers' = ClearTimeout(timers, debounceTimerRef)
            /\ debounceTimerRef' = 0
       ELSE UNCHANGED <<timers, debounceTimerRef>>
    /\ IF channelRef # 0
       THEN /\ channels' = Unsubscribed(channelRef)
            /\ channelRef' = 0
            /\ queue' = SelectSeq(queue, LAMBDA m : m.ch \in channels')
       ELSE UNCHANGED <<channels, channelRef, queue>>
    /\ awaitingRefresh' = FALSE
    /\ UNCHANGED <<rvars, gvars, fvars, pvars, dvars, avars, screen, filter, notifications, mounts, isFetchingRef, list, unreadCount, loading,
                   nextChannel, store, nextId, writes, dups, fetches,
                   hist, failed, seenCompleted>>

\* ------------------------------------------------------- change handlers
\* OrderManagement and MenuManagement (src): the INSERT, UPDATE, DELETE callbacks
ApplyEvent(prev, ev) ==
    CASE ev.type = "INSERT" -> InsertRow(prev, ev.row)
      [] ev.type = "UPDATE" -> UpdateRow(prev, ev.row)
      [] ev.type = "DELETE" -> DeleteRow(prev, ev.row)

\* setUnreadCount in the three OrderManagement callbacks
UnreadAfter(prev, ev, next) ==
    CASE ev.type = "INSERT" -> prev + 1
      [] ev.type = "UPDATE" -> Unread(next)
      [] ev.type = "DELETE" -> prev

SawCompleted(ev) ==
    IF screen \in {"Dashboard", "OrderManagement"} /\ ev.type = "UPDATE"
       /\ ev.row.status = "completed"
    THEN seenCompleted \cup {ev.row.id}
    ELSE seenCompleted

\* the callback the channel runs for one change event
OnChange(ev) ==
    /\ seenCompleted' = SawCompleted(ev)
    /\ CASE screen = "Dashboard" ->
              /\ LET rest == IF debounceTimerRef # 0
                              THEN ClearTimeout(timers, debounceTimerRef)
                              ELSE timers
                 IN  /\ debounceTimerRef' = SetTimeout(timers)
                     /\ timers' = rest \cup {debounceTimerRef'}
              /\ UNCHANGED <<list, unreadCount, fetches, isFetchingRef, hist>>
         [] screen = "OrderManagementApp" ->
              /\ StartFetch(TRUE)
              /\ UNCHANGED <<list, unreadCount, timers, debounceTimerRef,
                             hist>>
         [] IsList ->
              /\ IF mountedRef
                 THEN /\ list' = ApplyEvent(list, ev)
                      /\ unreadCount' = (IF screen = "OrderManagement"
                                         THEN UnreadAfter(unreadCount, ev, list')
                                         ELSE unreadCount)
                      /\ hist' = Remember([type |-> ev.type, row |-> ev.row,
                                           present |-> HasId(list, ev.row.id)])
                 ELSE UNCHANGED <<list, unreadCount, hist>>
              /\ UNCHANGED <<fetches, isFetchingRef, timers, debounceTimerRef>>

Deliver ==
    /\ queue # <<>>
    /\ Room
    /\ OnChange(Head(queue).ev)
    /\ queue' = Tail(queue)
    /\ awaitingRefresh' = (awaitingRefresh \/ screen = "Dashboard")
    /\ UNCHANGED <<rvars, gvars, fvars, pvars, dvars, avars, screen, filter, notifications, mounted, mounts, mountedRef, channelRef, loading,
                   channels, nextChannel, store, nextId, writes, dups, failed>>

\* at-least-once delivery: the event at the head is delivered and kept
Redeliver ==
    /\ queue # <<>>
    /\ dups < MaxDup
    /\ Room
    /\ OnChange(Head(queue).ev)
    /\ dups' = dups + 1
    /\ awaitingRefresh' = (awaitingRefresh \/ screen = "Dashboard")
    /\ UNCHANGED <<rvars, gvars, fvars, pvars, dvars, avars, screen, filter, notifications, mounted, mounts, mountedRef, channelRef, loading,
                   channels, nextChannel, store, nextId, writes, queue, failed>>

\* setTimeout(() => { if (mountedRef.current) fetchDashboardData() }, 1000)
TimerFire ==
    \E t \in timers :
        /\ timers' = timers \ {t}
        /\ StartFetch(mountedRef)
        /\ awaitingRefresh' = (awaitingRefresh /\ fetches' = fetches)
        /\ UNCHANGED <<rvars, gvars, fvars, pvars, dvars, avars, screen, filter, notifications, mounted, mounts, mountedRef, channelRef,
                       debounceTimerRef, list, unreadCount, loading, channels,
                       nextChannel, store, nextId, writes, queue,
                       dups, hist, failed, seenCompleted>>

\* ------------------------------------------------- the store and the reads
\* the store answers a read: the snapshot is the table at this moment
FetchServer ==
    \E k \in DOMAIN fetches :
      \E err \in BOOLEAN :
        \E rerr \in (IF screen = "Dashboard" /\ ~err THEN BOOLEAN ELSE {FALSE}) :
          /\ fetches[k].st = "sent"
          /\ fetches' = [fetches EXCEPT ![k] =
                 [st |-> "done", error |-> err, recentError |-> rerr,
                  data |-> IF err \/ rerr THEN <<>>
                           ELSE IF screen = "Dashboard" THEN Recent(store)
                           ELSE store]]
          /\ UNCHANGED <<xvars, pvars, dvars, avars, screen, filter, notifications, mounted, mounts, mountedRef, isFetchingRef,
                         channelRef, debounceTimerRef, list, unreadCount,
                         loading, channels, nextChannel, timers, store, nextId, writes, queue, dups, hist, failed,
                         seenCompleted>>

\* does the response set the list?  (if (error) throw; if (mountedRef.current) ...)
Applies(f) ==
    IF screen = "OrderManagementApp" THEN ~f.error
    ELSE ~f.error /\ mountedRef

\* variant: the catch block only logs the error
NotifySilent(f) == notifications

\* catch: if (mountedRef.current) addNotificationRef.current('Failed to fetch ...', 'error');
\* the app variant calls toast(...) without looking at a mounted flag
Notify(f) ==
    IF f.error /\ (screen = "OrderManagementApp" \/ mountedRef)
    THEN notifications + 1
    ELSE notifications

\* the handler resumes after its await: try / catch / finally
FetchResponse ==
    \E k \in DOMAIN fetches :
        LET f == fetches[k] IN
        /\ f.st = "done"
        /\ fetches' = RemoveAt(fetches, k)
        /\ list' = (IF Applies(f) THEN f.data ELSE list)
        /\ unreadCount' = (IF Applies(f) /\ screen = "OrderManagement"
                           THEN Unread(f.data) ELSE unreadCount)
        /\ loading' = (CASE screen = "OrderManagementApp" -> FALSE
                         [] screen = "MenuManagement" -> loading
                         [] OTHER -> IF mountedRef THEN FALSE ELSE loading)
        /\ isFetchingRef' = (IF screen = "OrderManagementApp"
                             THEN isFetchingRef ELSE FALSE)
        /\ hist' = (IF Applies(f) THEN <<>> ELSE hist)
        /\ notifications' = Notify(f)
        /\ failed' = (failed \/ f.error \/ f.recentError)
        /\ UNCHANGED <<xvars, pvars, dvars, avars, screen, filter, mounted, mounts, mountedRef, channelRef,
                       debounceTimerRef, channels, nextChannel, timers,
                       store, nextId, writes, queue, dups,
                       seenCompleted>>

\* a row is inserted (a customer places an order, an admin adds a menu item)
StoreInsert ==
    /\ writes < MaxWrites
    /\ nextId < MaxRows
    /\ LET row == IF IsOrders THEN OrderRow(nextId + 1, "pending", FALSE)
                  ELSE MenuRow(nextId + 1, TRUE)
       IN  /\ store' = <<row>> \o store
           /\ queue' = queue \o Emit(channels, [type |-> "INSERT", row |-> row])
    /\ nextId' = nextId + 1
    /\ writes' = writes + 1
    /\ UNCHANGED <<xvars, pvars, dvars, avars, screen, filter, notifications, mounted, mounts, mountedRef, isFetchingRef,
                   channelRef, debounceTimerRef, list, unreadCount, loading,
                   channels, nextChannel, timers, dups, fetches,
                   hist, failed, seenCompleted>>

\* updateOrderStatus: .update({status, is_read: true}).eq('id', id);
\* toggleAvailability: .update({is_available: !currentStatus}).eq('id', id)
StoreUpdate ==
    \E k \in DOMAIN store :
      \E s \in Statuses :
        LET row == IF IsOrders THEN OrderRow(store[k].id, s, TRUE)
                   ELSE MenuRow(store[k].id, ~store[k].is_available)
        IN  /\ writes < MaxWrites
            /\ IsOrders \/ s = "pending"
            /\ store' = [store EXCEPT ![k] = row]
            /\ queue' = queue \o Emit(channels, [type |-> "UPDATE", row |-> row])
            /\ writes' = writes + 1
            /\ UNCHANGED <<xvars, pvars, dvars, avars, screen, filter, notifications, mounted, mounts, mountedRef, isFetchingRef,
                           channelRef, debounceTimerRef, list, unreadCount,
                           loading, channels, nextChannel, timers, nextId, dups, fetches, hist, failed, seenCompleted>>

\* .delete().eq('id', id)
StoreDelete ==
    \E k \in DOMAIN store :
        /\ writes < MaxWrites
        /\ store' = RemoveAt(store, k)
        /\ queue' = queue \o Emit(channels, [type |-> "DELETE",
                                              row |-> [id |-> store[k].id]])
        /\ writes' = writes + 1
        /\ UNCHANGED <<xvars, pvars, dvars, avars, screen, filter, notifications, mounted, mounts, mountedRef, isFetchingRef,
                       channelRef, debounceTimerRef, list, unreadCount, loading,
                       channels, nextChannel, timers, nextId, dups,
                       fetches, hist, failed, seenCompleted>>


\* ------------------------------------------------ the orders filter (app)
Filters == {"all"} \cup Statuses

\* variant: the projection compares with !== and shows the other rows
filteredOrdersInverted(rows, f) ==
    IF f = "all" THEN rows
    ELSE SelectSeq(rows, LAMBDA order : order.status # f)

\* filter === 'all' ? orders : orders.filter((order) => order.status === filter)
filteredOrders(rows, f) ==
    IF f = "all" THEN rows
    ELSE SelectSeq(rows, LAMBDA order : order.status = f)

\* <Select value={filter} onValueChange={setFilter}>, rendered once loading is over
SetFilter ==
    \E f \in Filters :
        /\ screen = "OrderManagementApp"
        /\ mounted
        /\ ~loading
        /\ f # filter
        /\ filter' = f
        /\ UNCHANGED <<xvars, pvars, dvars, avars, screen, mounted, mounts, mountedRef, isFetchingRef,
                       channelRef, debounceTimerRef, list, unreadCount, loading,
                       notifications, channels, nextChannel, timers, store,
                       nextId, writes, queue, dups, fetches, hist, failed,
                       seenCompleted>>

\* ------------------------------------------------------ session resolver
None == "none"
Uids == {"u1", "u2"}
Roles == {"customer", "admin", "superadmin"}
RequiredRoles == {"admin", "superadmin"}
NoRow == "norow"
NoProfile == [id |-> None, role |-> None]

Call(u) == [uid |-> u, st |-> "sent", ok |-> FALSE, data |-> NoProfile]

\* useAdminPermissions().hasPermission(requiredRole), profile = userProfile
hasPermission(profile, requiredRole) ==
    IF profile = NoProfile THEN FALSE
    ELSE IF requiredRole = "superadmin"
         THEN profile.role = "superadmin"
         ELSE profile.role = "admin" \/ profile.role = "superadmin"

\* the body of AdminRouteGuard's effect: the next value of hasAccess
GuardAccess(u, profile, isLoading, requiredRole, prev) ==
    IF ~isLoading
    THEN IF u = None \/ profile = NoProfile
         THEN FALSE
         ELSE IF requiredRole = "superadmin"
              THEN profile.role = "superadmin"
              ELSE profile.role = "admin" \/ profile.role = "superadmin"
    ELSE prev

AllPending == [r \in RequiredRoles |-> TRUE]

\* AdminPanel's tabs; AuthProvider.signIn as a call in flight
Tabs == {"dashboard", "orders", "menu", "users"}
NoSignIn == [st |-> "idle", uid |-> None, ok |-> FALSE, data |-> NoProfile,
             outcome |-> "none", n |-> 0]

NoSubmit == [st |-> "idle", id |-> None, role |-> None, touched |-> FALSE,
             error |-> FALSE]

\* useState of formData: role: 'customer'
EmptyForm == [role |-> "customer"]

\* UserManagement before its first fetch answers, the form closed
FormIdle ==
    /\ userList = [u \in Uids |-> NoRow]
    /\ showAddUser = FALSE
    /\ editingUser = None
    /\ formData = EmptyForm
    /\ roleTouched = FALSE
    /\ userSubmit = NoSubmit

PanelIdle ==
    /\ activeTab = "dashboard"
    /\ signIn = NoSignIn
    /\ statusUpdates = <<>>
    /\ showLogin = TRUE
    /\ appDeps = <<None, NoProfile, TRUE>>
    /\ loginDue = FALSE
    /\ FormIdle

NoCheck == [st |-> "idle", uid |-> None, role |-> None]

\* the provider has rendered once and its effect has registered the listener
ResolverUp ==
    /\ providerMounted = TRUE
    /\ providerMounts = 1
    /\ listeners = {1}
    /\ isAuthenticated = FALSE
    /\ checkAuth = NoCheck

AuthIdle ==
    /\ session = None
    /\ users = [u \in Uids |-> "customer"]
    /\ user = None
    /\ userProfile = NoProfile
    /\ authLoading = TRUE
    /\ initPending = TRUE
    /\ profileFetches = <<>>
    /\ hasAccess = [r \in RequiredRoles |-> FALSE]
    /\ guardPending = AllPending
    /\ events = 0
    /\ roleWrites = 0
    /\ downgrade = "none"
    /\ PanelIdle
    /\ ResolverUp

\* the provider has rendered once: its effect called getInitialSession() and
\* registered the listener; the identity store and the users table are arbitrary
AuthInit ==
    /\ session \in Uids \cup {None}
    /\ users \in [Uids -> Roles \cup {NoRow}]
    /\ user = None
    /\ userProfile = NoProfile
    /\ authLoading = TRUE
    /\ initPending = TRUE
    /\ profileFetches = <<>>
    /\ hasAccess = [r \in RequiredRoles |-> FALSE]
    /\ guardPending = AllPending
    /\ events = 0
    /\ roleWrites = 0
    /\ downgrade = "none"
    /\ PanelIdle
    /\ ResolverUp

\* getInitialSession after its await: setUser; fetchUserProfile or setLoading(false)
GetInitialSession ==
    /\ initPending
    /\ initPending' = FALSE
    /\ user' = session
    /\ IF session # None
       THEN /\ Len(profileFetches) < MaxProfileFetches
            /\ profileFetches' = Append(profileFetches, Call(session))
            /\ UNCHANGED authLoading
       ELSE /\ authLoading' = FALSE
            /\ UNCHANGED profileFetches
    /\ guardPending' = AllPending
    /\ UNCHANGED <<xvars, pvars, dvars, svars, session, users, userProfile, hasAccess, events,
                   roleWrites, downgrade>>

\* the identity store signs u in, refreshes u's token or signs out (u = None)
\* and runs the onAuthStateChange callback up to its await
AuthEvent ==
    \E u \in Uids \cup {None} :
        /\ events < MaxEvents
        /\ u = None => session # None
        /\ session' = u
        /\ events' = events + 1
        /\ IF listeners = {}
           THEN UNCHANGED <<user, userProfile, authLoading, profileFetches,
                            guardPending, downgrade>>
           ELSE /\ user' = u
                /\ IF u # None
                   THEN /\ Len(profileFetches) < MaxProfileFetches
                        /\ profileFetches' = Append(profileFetches, Call(u))
                        /\ UNCHANGED <<userProfile, authLoading>>
                   ELSE /\ userProfile' = NoProfile
                        /\ authLoading' = FALSE
                        /\ UNCHANGED profileFetches
                /\ guardPending' = AllPending
                /\ downgrade' = (IF u # user THEN "none"
                                 ELSE IF downgrade = "written" THEN "notified"
                                 ELSE downgrade)
        /\ UNCHANGED <<xvars, pvars, dvars, svars, users, initPending, hasAccess, roleWrites>>

\* the store answers .from('users').select('*').eq('id', userId).single():
\* an error when the request fails or no row matches
ProfileServer ==
    \E k \in DOMAIN profileFetches :
      \E broken \in BOOLEAN :
        LET c == profileFetches[k]
            found == users[c.uid] # NoRow /\ ~broken
        IN  /\ c.st = "sent"
            /\ profileFetches' = [profileFetches EXCEPT ![k] =
                   [uid |-> c.uid, st |-> "done", ok |-> found,
                    data |-> IF found THEN [id |-> c.uid, role |-> users[c.uid]]
                             ELSE NoProfile]]
            /\ UNCHANGED <<xvars, pvars, dvars, svars, session, users, user, userProfile,
                           authLoading, initPending, hasAccess, guardPending,
                           events, roleWrites, downgrade>>

\* fetchUserProfile after its await: if (error) return; setUserProfile(data)
ProfileAfterFetch(c, prev) == IF c.ok THEN c.data ELSE prev

\* loading cleared only when the profile arrived
LoadingAfterSuccess(ok, prev) == IF ok THEN FALSE ELSE prev

\* await fetchUserProfile(id); setLoading(false): fetchUserProfile logs an
\* error and returns, so the caller clears loading after every outcome
LoadingAfterFetch(ok, prev) == FALSE

\* fetchUserProfile resumes, then its caller runs setLoading(false)
ProfileResponse ==
    \E k \in DOMAIN profileFetches :
        LET c == profileFetches[k] IN
        /\ c.st = "done"
        /\ profileFetches' = RemoveAt(profileFetches, k)
        /\ userProfile' = ProfileAfterFetch(c, userProfile)
        /\ authLoading' = LoadingAfterFetch(c.ok, authLoading)
        /\ guardPending' = AllPending
        /\ UNCHANGED <<xvars, pvars, dvars, svars, session, users, user, initPending, hasAccess,
                       events, roleWrites, downgrade>>

\* history: the write lowers the role of the user the resolver holds as admin
Lowered(u, r) ==
    /\ userProfile.id = u
    /\ hasPermission(userProfile, "admin")
    /\ users[u] \in {"admin", "superadmin"}
    /\ r = "customer" \/ (r = "admin" /\ users[u] = "superadmin")

\* an administrator changes the role of a row, or removes the row
RoleWrite ==
    \E u \in Uids :
      \E r \in Roles \cup {NoRow} :
        /\ roleWrites < MaxRoleWrites
        /\ users[u] # r
        /\ users' = [users EXCEPT ![u] = r]
        /\ roleWrites' = roleWrites + 1
        /\ downgrade' = (IF u # user THEN downgrade
                         ELSE IF Lowered(u, r) THEN "written" ELSE "none")
        /\ UNCHANGED <<xvars, pvars, dvars, svars, session, user, userProfile, authLoading,
                       initPending, profileFetches, hasAccess, guardPending,
                       events>>

\* AdminPanel keeps activeTab while it is mounted; ProtectedAdminPanel mounts
\* it under the guard for 'admin', and a new mount starts at 'dashboard'
PanelTab(r, access, tab) ==
    IF r = "admin" /\ ~access THEN "dashboard" ELSE tab

\* signIn: !profile || (role !== 'admin' && role !== 'superadmin')
SignInDenied(profile) ==
    profile = NoProfile \/ (profile.role # "admin" /\ profile.role # "superadmin")

\* AdminRouteGuard's effect runs for [user, userProfile, loading, requiredRole]
GuardEffect ==
    \E r \in RequiredRoles :
        /\ guardPending[r]
        /\ hasAccess' = [hasAccess EXCEPT ![r] =
               GuardAccess(user, userProfile, authLoading, r, hasAccess[r])]
        /\ guardPending' = [guardPending EXCEPT ![r] = FALSE]
        /\ activeTab' = PanelTab(r, hasAccess'[r], activeTab)
        /\ UNCHANGED <<xvars, signIn, dvars, svars, session, users, user, userProfile,
                       authLoading, initPending, profileFetches, events,
                       roleWrites, downgrade>>

\* a click on a tab button of AdminPanel; the users button is rendered only
\* under hasPermission('superadmin')
SetActiveTab ==
    \E tab \in Tabs :
        /\ ~authLoading
        /\ hasAccess["admin"]
        /\ ~guardPending["admin"]
        /\ tab # activeTab
        /\ tab = "users" => hasPermission(userProfile, "superadmin")
        /\ activeTab' = tab
        /\ UNCHANGED <<xvars, signIn, dvars, svars, avars>>

\* the content area of AdminPanel shows <UserManagement />
UsersRendered ==
    /\ ~authLoading
    /\ hasAccess["admin"]
    /\ activeTab = "users"

\* AdminApp renders <AdminLogin /> (loading over, showLogin set)
LoginShown == ~authLoading /\ showLogin

\* The commit that follows a change of user, userProfile or loading.
\* Effects run child first: AdminLogin's effect, when the login form is
\* rendered, calls onSuccess() (setShowLogin(false)) for an admin profile,
\* then AdminApp's effect for [user, userProfile, loading] sets showLogin
\* itself unless loading is set, so AdminApp's value is the one that stays.
\* While loading is set the spinner is rendered and AdminLogin is not.
\* A showLogin that goes from false to true renders once more and mounts
\* AdminLogin with AdminApp's dependencies unchanged.
AppEffect ==
    /\ appDeps # <<user, userProfile, authLoading>>
    /\ appDeps' = <<user, userProfile, authLoading>>
    /\ showLogin' = (IF authLoading THEN showLogin
                     ELSE ~(user # None /\ userProfile # NoProfile
                            /\ (userProfile.role = "admin"
                                \/ userProfile.role = "superadmin")))
    /\ loginDue' = (~authLoading /\ ~showLogin /\ showLogin')
    /\ UNCHANGED <<rvars, awaitingRefresh, fvars, svars, avars, dvars, pvars>>

\* AdminLogin's effect for [userProfile, onSuccess] at its mount:
\* if (userProfile?.role === 'admin') onSuccess()
LoginEffect ==
    /\ loginDue
    /\ loginDue' = FALSE
    /\ showLogin' = (IF userProfile.role = "admin" THEN FALSE ELSE showLogin)
    /\ UNCHANGED <<rvars, awaitingRefresh, fvars, appDeps, svars, avars, dvars, pvars>>

\* every effect of AdminApp and AdminLogin has run for the current state
EffectsIdle == appDeps = <<user, userProfile, authLoading>> /\ ~loginDue

\* handleSubmit calls signIn(email, password); signInWithPassword accepts the
\* credentials, the session listener runs for the new session, and signIn
\* sends its own profile query
SignInSubmit ==
    \E u \in Uids :
        /\ signIn.st \in {"idle", "ended"}
        /\ signIn.n < MaxSignIns
        /\ LoginShown
        /\ Len(profileFetches) < MaxProfileFetches
        /\ signIn' = [st |-> "sent", uid |-> u, ok |-> FALSE, data |-> NoProfile,
                      outcome |-> "none", n |-> signIn.n + 1]
        /\ session' = u
        /\ user' = u
        /\ profileFetches' = Append(profileFetches, Call(u))
        /\ guardPending' = AllPending
        /\ downgrade' = (IF u # user THEN "none"
                         ELSE IF downgrade = "written" THEN "notified"
                         ELSE downgrade)
        /\ UNCHANGED <<xvars, activeTab, dvars, svars, users, userProfile, authLoading,
                       initPending, hasAccess, events, roleWrites>>

\* the store answers signIn's .from('users').select('*').eq('id', id).single()
SignInServer ==
    \E broken \in BOOLEAN :
        LET found == users[signIn.uid] # NoRow /\ ~broken IN
        /\ signIn.st = "sent"
        /\ signIn' = [signIn EXCEPT !.st = "done", !.ok = found,
               !.data = IF found
                        THEN [id |-> signIn.uid, role |-> users[signIn.uid]]
                        ELSE NoProfile]
        /\ UNCHANGED <<xvars, activeTab, dvars, svars, avars>>

\* signIn resumes after its profile query, then handleSubmit's try or catch
SignInResponse ==
    /\ signIn.st = "done"
    /\ IF ~signIn.ok
       THEN /\ signIn' = [signIn EXCEPT !.st = "ended", !.outcome = "error"]
            /\ UNCHANGED <<session, user, userProfile, authLoading,
                           guardPending, downgrade, showLogin>>
       ELSE IF SignInDenied(signIn.data)
       THEN /\ signIn' = [signIn EXCEPT !.st = "ended", !.outcome = "error"]
            /\ session' = None
            /\ user' = None
            /\ userProfile' = NoProfile
            /\ authLoading' = FALSE
            /\ guardPending' = AllPending
            /\ downgrade' = (IF user # None THEN "none" ELSE downgrade)
            /\ UNCHANGED showLogin
       ELSE /\ signIn' = [signIn EXCEPT !.st = "ended", !.outcome = "success"]
            /\ userProfile' = signIn.data
            /\ showLogin' = FALSE
            /\ guardPending' = AllPending
            /\ UNCHANGED <<session, user, authLoading, downgrade>>
    /\ UNCHANGED <<rvars, awaitingRefresh, fvars, appDeps, loginDue, activeTab, dvars, svars, users, initPending, profileFetches,
                   hasAccess, events, roleWrites>>

\* ------------------------------------------- data layer (app variant)
\* role text DEFAULT 'user' CHECK (role IN ('admin', 'user'))
ProfileRoles == {"admin", "user"}
Names == {"n1", "n2"}

\* auth.uid() of a statement: a signed-in identity, or null for the anon key
Callers == identities \cup {None}

Profile(u, r, n) == [id |-> u, role |-> r, full_name |-> n]

Statement(by, op, changed) == [by |-> by, op |-> op, changed |-> changed]

\* EXISTS (SELECT 1 FROM profiles WHERE profiles.id = auth.uid() AND profiles.role = 'admin')
IsAdmin(by) == \E p \in profiles : p.id = by /\ p.role = "admin"

\* CREATE POLICY "Users can insert own profile" ... WITH CHECK (auth.uid() = id)
UsersCanInsertOwnProfile(by, row) == by = row.id

\* CREATE POLICY "Users can update own profile" ... USING / WITH CHECK (auth.uid() = id)
UsersCanUpdateOwnProfile(by, row) == by = row.id

AdminsCanUpdateAnyProfile(by) == IsAdmin(by)

AdminsCanDeleteProfiles(by) == IsAdmin(by)

AdminsCanInsertMenuItems(by) == IsAdmin(by)

AdminsCanUpdateMenuItems(by) == IsAdmin(by)

\* variant: the policy only asks for a signed-in caller
SignedInCanDeleteMenuItems(by) == by # None

AdminsCanDeleteMenuItems(by) == IsAdmin(by)

\* CREATE POLICY "Anyone can create orders" ... WITH CHECK (true)
AnyoneCanCreateOrders(by) == TRUE

\* variant: the policy is written like the INSERT policy, USING (true)
AnyoneCanUpdateOrders(by) == TRUE

AdminsCanUpdateOrders(by) == IsAdmin(by)

AdminsCanDeleteOrders(by) == IsAdmin(by)

\* id uuid PRIMARY KEY DEFAULT gen_random_uuid()
NewId(rows) == CHOOSE i \in 1..MaxTableRows : \A r \in rows : r.id # i

DataIdle ==
    /\ identities = {}
    /\ profiles = {}
    /\ menu_items = {}
    /\ orders = {}
    /\ call = Statement(None, "none", FALSE)

\* some identities exist, each with the row the trigger gave it; the role of
\* a row is 'user' or was set to 'admin' by the owner of the database
DataInit ==
    /\ identities \in SUBSET Uids
    /\ \E role \in [identities -> ProfileRoles] :
           profiles = {Profile(u, role[u], "n1") : u \in identities}
    /\ menu_items = {}
    /\ orders = {}
    /\ call = Statement(None, "none", FALSE)

\* auth.users gets a row; trigger on_auth_user_created runs handle_new_user()
CreateIdentity ==
    \E u \in Uids \ identities :
      \E n \in Names :
        /\ identities' = identities \cup {u}
        /\ profiles' = profiles \cup {Profile(u, "user", n)}
        /\ call' = Statement(None, "create_identity", TRUE)
        /\ UNCHANGED <<xvars, pvars, svars, avars, menu_items, orders>>

\* auth.users loses a row; profiles.id REFERENCES auth.users(id) ON DELETE CASCADE
DeleteIdentity ==
    \E u \in identities :
        /\ identities' = identities \ {u}
        /\ profiles' = {p \in profiles : p.id # u}
        /\ call' = Statement(None, "delete_identity", TRUE)
        /\ UNCHANGED <<xvars, pvars, svars, avars, menu_items, orders>>

\* INSERT INTO profiles: policy "Users can insert own profile", the primary
\* key and the foreign key to auth.users
ProfileInsert ==
    \E by \in Callers :
      \E u \in Uids :
        \E r \in ProfileRoles :
          \E n \in Names :
            LET new == Profile(u, r, n)
                ok == /\ UsersCanInsertOwnProfile(by, new)
                      /\ u \in identities
                      /\ \A p \in profiles : p.id # u
            IN  /\ profiles' = (IF ok THEN profiles \cup {new} ELSE profiles)
                /\ call' = Statement(by, "profiles_insert", ok)
                /\ UNCHANGED <<xvars, pvars, svars, avars, identities, menu_items, orders>>

\* UPDATE profiles: policies "Users can update own profile" (USING and WITH
\* CHECK auth.uid() = id) and "Admins can update any profile", taken together
ProfileUpdate ==
    \E by \in Callers :
      \E p \in profiles :
        \E r \in ProfileRoles :
          \E n \in Names :
            LET new == Profile(p.id, r, n)
                ok == /\ UsersCanUpdateOwnProfile(by, p)
                             \/ AdminsCanUpdateAnyProfile(by)
                      /\ UsersCanUpdateOwnProfile(by, new)
                             \/ AdminsCanUpdateAnyProfile(by)
            IN  /\ new # p
                /\ profiles' = (IF ok THEN (profiles \ {p}) \cup {new}
                                ELSE profiles)
                /\ call' = Statement(by, "profiles_update", ok)
                /\ UNCHANGED <<xvars, pvars, svars, avars, identities, menu_items, orders>>

\* DELETE FROM profiles: policy "Admins can delete profiles"
ProfileDelete ==
    \E by \in Callers :
      \E p \in profiles :
        LET ok == AdminsCanDeleteProfiles(by)
        IN  /\ profiles' = (IF ok THEN profiles \ {p} ELSE profiles)
            /\ call' = Statement(by, "profiles_delete", ok)
            /\ UNCHANGED <<xvars, pvars, svars, avars, identities, menu_items, orders>>

\* INSERT INTO menu_items: policy "Admins can insert menu items"
MenuInsert ==
    \E by \in Callers :
        LET ok == AdminsCanInsertMenuItems(by)
        IN  /\ Cardinality(menu_items) < MaxTableRows
            /\ menu_items' = (IF ok
                              THEN menu_items \cup {MenuRow(NewId(menu_items), TRUE)}
                              ELSE menu_items)
            /\ call' = Statement(by, "menu_items_insert", ok)
            /\ UNCHANGED <<xvars, pvars, svars, avars, identities, profiles, orders>>

\* UPDATE menu_items: policy "Admins can update menu items"
MenuUpdate ==
    \E by \in Callers :
      \E m \in menu_items :
        LET ok == AdminsCanUpdateMenuItems(by)
        IN  /\ menu_items' = (IF ok
                              THEN (menu_items \ {m})
                                       \cup {MenuRow(m.id, ~m.is_available)}
                              ELSE menu_items)
            /\ call' = Statement(by, "menu_items_update", ok)
            /\ UNCHANGED <<xvars, pvars, svars, avars, identities, profiles, orders>>

\* DELETE FROM menu_items: policy "Admins can delete menu items"
MenuDelete ==
    \E by \in Callers :
      \E m \in menu_items :
        LET ok == AdminsCanDeleteMenuItems(by)
        IN  /\ menu_items' = (IF ok THEN menu_items \ {m} ELSE menu_items)
            /\ call' = Statement(by, "menu_items_delete", ok)
            /\ UNCHANGED <<xvars, pvars, svars, avars, identities, profiles, orders>>

\* INSERT INTO orders: policy "Anyone can create orders", status DEFAULT 'pending'
OrderInsert ==
    \E by \in Callers :
        /\ Cardinality(orders) < MaxTableRows
        /\ orders' = (IF AnyoneCanCreateOrders(by)
                      THEN orders \cup {[id |-> NewId(orders), status |-> "pending"]}
                      ELSE orders)
        /\ call' = Statement(by, "orders_insert", AnyoneCanCreateOrders(by))
        /\ UNCHANGED <<xvars, pvars, svars, avars, identities, profiles, menu_items>>

\* UPDATE orders SET status: policy "Admins can update orders"
OrderUpdate ==
    \E by \in Callers :
      \E o \in orders :
        \E st \in Statuses \ {o.status} :
          LET ok == AdminsCanUpdateOrders(by)
          IN  /\ orders' = (IF ok
                            THEN (orders \ {o}) \cup {[id |-> o.id, status |-> st]}
                            ELSE orders)
              /\ call' = Statement(by, "orders_update", ok)
              /\ UNCHANGED <<xvars, pvars, svars, avars, identities, profiles, menu_items>>

\* DELETE FROM orders: policy "Admins can delete orders"
OrderDelete ==
    \E by \in Callers :
      \E o \in orders :
        LET ok == AdminsCanDeleteOrders(by)
        IN  /\ orders' = (IF ok THEN orders \ {o} ELSE orders)
            /\ call' = Statement(by, "orders_delete", ok)
            /\ UNCHANGED <<xvars, pvars, svars, avars, identities, profiles, menu_items>>

\* ------------------------------------------------- order status updates
SrcStatuses == {"pending", "confirmed", "preparing", "ready", "delivered",
                "cancelled"}
AppStatuses == {"pending", "preparing", "completed", "cancelled"}

\* statusOptions (src), the SelectItems of the order card (app)
StatusOptions == IF screen = "OrderManagement" THEN SrcStatuses ELSE AppStatuses

\* variant: no way out of a final status is offered
StatusOfferedForward(current, status) ==
    status # current /\ current \notin {"completed", "delivered", "cancelled"}

\* src: disabled={actionLoading || order.status === status.value};
\* app: <Select value={order.status} onValueChange=...> reports a change only
StatusOffered(current, status) == status # current

\* orders.status CHECK (status IN (...)) of the schema the app variant runs on
StatusAccepted(status) == screen = "OrderManagementApp" => status \in AppStatuses

\* .update({ status, is_read: true }) (src), .update({ status: newStatus }) (app)
StatusPatch(o, status) ==
    IF screen = "OrderManagement"
    THEN [id |-> o.id, status |-> status, is_read |-> TRUE]
    ELSE [id |-> o.id, status |-> status]

\* the rows a table of the variant can hold
StatusRows ==
    IF screen = "OrderManagement"
    THEN [id : 1..MaxTableRows, status : SrcStatuses, is_read : BOOLEAN]
    ELSE [id : 1..MaxTableRows, status : AppStatuses]

\* the order screen is shown over a table of orders in any statuses
StatusInit ==
    /\ identities \in SUBSET Uids
    /\ \E role \in [identities -> ProfileRoles] :
           profiles = {Profile(u, role[u], "n1") : u \in identities}
    /\ menu_items = {}
    /\ orders \in {t \in SUBSET StatusRows :
                      \A a, b \in t : a.id = b.id => a = b}
    /\ call = Statement(None, "none", FALSE)

\* updateOrderStatus up to its await; src returns at once while actionLoading
UpdateOrderStatus ==
    \E by \in Callers :
      \E o \in orders :
        \E status \in StatusOptions :
          /\ StatusOffered(o.status, status)
          /\ writes + Len(statusUpdates) < MaxStatusUpdates
          /\ IF screen = "OrderManagement"
             THEN statusUpdates = <<>>
             ELSE Len(statusUpdates) < MaxInflight
          /\ statusUpdates' = Append(statusUpdates,
                 [st |-> "sent", id |-> o.id, status |-> status, by |-> by,
                  error |-> FALSE, was |-> o.status])
          /\ UNCHANGED <<awaitingRefresh, gvars, fvars, svars, avars, dvars, pvars, providerMounted,
                         providerMounts, listeners, isAuthenticated, checkAuth>>

\* the store runs UPDATE orders SET ... WHERE id = id under policy
\* "Admins can update orders"; a statement that matches no row is no error
UpdateServer ==
    \E k \in DOMAIN statusUpdates :
      \E broken \in BOOLEAN :
        LET c == statusUpdates[k]
            rows == {o \in orders : o.id = c.id}
            error == broken \/ ~StatusAccepted(c.status)
            ok == ~error /\ AdminsCanUpdateOrders(c.by) /\ rows # {}
        IN  /\ c.st = "sent"
            /\ orders' = (IF ok
                          THEN (orders \ rows)
                                   \cup {StatusPatch(o, c.status) : o \in rows}
                          ELSE orders)
            /\ call' = Statement(c.by, "orders_update", ok)
            /\ writes' = writes + 1
            /\ statusUpdates' = [statusUpdates EXCEPT ![k] =
                   [c EXCEPT !.st = "done", !.error = error,
                             !.was = IF rows = {} THEN c.was
                                     ELSE (CHOOSE o \in rows : TRUE).status]]
            /\ UNCHANGED <<awaitingRefresh, gvars, fvars, avars, pvars, identities, profiles, menu_items,
                           providerMounted, providerMounts, listeners,
                           isAuthenticated, checkAuth,
                           screen, mounted, mounts, mountedRef, isFetchingRef,
                           channelRef, debounceTimerRef, list, unreadCount,
                           loading, notifications, filter, channels,
                           nextChannel, timers, store, nextId, queue, dups,
                           fetches, hist, failed, seenCompleted>>

\* updateOrderStatus after its await: a notification either way; the app
\* variant then calls fetchOrders()
UpdateResponse ==
    \E k \in DOMAIN statusUpdates :
        LET c == statusUpdates[k]
            refetch == screen = "OrderManagementApp" /\ ~c.error
        IN  /\ c.st = "done"
            /\ refetch => Room
            /\ statusUpdates' = RemoveAt(statusUpdates, k)
            /\ notifications' = notifications + 1
            /\ fetches' = (IF refetch THEN Append(fetches, Sent) ELSE fetches)
            /\ UNCHANGED <<awaitingRefresh, gvars, fvars, avars, dvars, pvars, providerMounted, providerMounts,
                           listeners, isAuthenticated, checkAuth,
                           screen, mounted, mounts,
                           mountedRef, isFetchingRef, channelRef,
                           debounceTimerRef, list, unreadCount, loading, filter,
                           channels, nextChannel, timers, store, nextId, writes,
                           queue, dups, hist, failed, seenCompleted>>

\* ------------------------------------------- the resolver's lifetime
IsApp == screen = "OrderManagementApp"

\* nothing has rendered yet; the identity store holds any session, the users
\* table (profiles in the app variant) any rows
ResolverInit ==
    /\ session \in Uids \cup {None}
    /\ users \in [Uids -> Roles \cup {NoRow}]
    /\ user = None
    /\ userProfile = NoProfile
    /\ authLoading = TRUE
    /\ initPending = FALSE
    /\ profileFetches = <<>>
    /\ hasAccess = [r \in RequiredRoles |-> FALSE]
    /\ guardPending = AllPending
    /\ events = 0
    /\ roleWrites = 0
    /\ downgrade = "none"
    /\ PanelIdle
    /\ providerMounted = FALSE
    /\ providerMounts = 0
    /\ listeners = {}
    /\ isAuthenticated = FALSE
    /\ checkAuth = NoCheck

\* supabase.auth.onAuthStateChange(callback): one more listener
OnAuthStateChange(ls, id) == ls \cup {id}

\* subscription.unsubscribe()
SubscriptionUnsubscribe(ls, id) == ls \ {id}

\* the resolver's effect runs.  AuthProvider: getInitialSession() and
\* onAuthStateChange(...); AdminPage: checkAuth()
ResolverMount ==
    /\ ~providerMounted
    /\ providerMounts < MaxProviderMounts
    /\ providerMounted' = TRUE
    /\ providerMounts' = providerMounts + 1
    /\ IF IsApp
       THEN /\ checkAuth.st \in {"idle", "ended"}
            /\ checkAuth' = [st |-> "session", uid |-> None, role |-> None]
            /\ UNCHANGED <<initPending, listeners>>
       ELSE /\ ~initPending
            /\ initPending' = TRUE
            /\ listeners' = OnAuthStateChange(listeners, providerMounts + 1)
            /\ UNCHANGED checkAuth
    /\ UNCHANGED <<awaitingRefresh, gvars, fvars, svars, dvars, pvars, statusUpdates, isAuthenticated, session,
                   users, user, userProfile, authLoading, profileFetches,
                   hasAccess, guardPending, events, roleWrites, downgrade>>

\* the effect's cleanup.  AuthProvider: subscription.unsubscribe(); AdminPage
\* returns none
ResolverUnmount ==
    /\ providerMounted
    /\ providerMounted' = FALSE
    /\ listeners' = (IF IsApp THEN listeners
                     ELSE SubscriptionUnsubscribe(listeners, providerMounts))
    /\ UNCHANGED <<awaitingRefresh, gvars, fvars, svars, avars, dvars, pvars, statusUpdates, providerMounts,
                   isAuthenticated, checkAuth>>

\* checkAuth after await supabase.auth.getSession(): the profile query is sent
\* for a session; without one, or when the call throws, finally runs
CheckAuthSession ==
    \E throws \in BOOLEAN :
        /\ checkAuth.st = "session"
        /\ IF ~throws /\ session # None
           THEN /\ checkAuth' = [st |-> "profile", uid |-> session, role |-> None]
                /\ UNCHANGED authLoading
           ELSE /\ checkAuth' = [st |-> "ended", uid |-> None, role |-> None]
                /\ authLoading' = FALSE
        /\ UNCHANGED <<awaitingRefresh, gvars, fvars, svars, dvars, pvars, statusUpdates, providerMounted,
                       providerMounts, listeners, isAuthenticated, session,
                       users, user, userProfile, initPending, profileFetches,
                       hasAccess, guardPending, events, roleWrites, downgrade>>

\* the store answers .from('profiles').select('role').eq('id', id).single();
\* checkAuth reads data only, which is null on any error
CheckAuthServer ==
    \E broken \in BOOLEAN :
        /\ checkAuth.st = "profile"
        /\ checkAuth' = [checkAuth EXCEPT !.st = "answered",
               !.role = IF broken \/ users[checkAuth.uid] = NoRow THEN None
                        ELSE users[checkAuth.uid]]
        /\ UNCHANGED <<awaitingRefresh, gvars, fvars, svars, avars, dvars, pvars, statusUpdates, providerMounted,
                       providerMounts, listeners, isAuthenticated>>

\* checkAuth after the profile query: if (profile?.role === 'admin')
\* setIsAuthenticated(true); finally setLoading(false)
CheckAuthResponse ==
    /\ checkAuth.st = "answered"
    /\ checkAuth' = [checkAuth EXCEPT !.st = "ended"]
    /\ isAuthenticated' = (isAuthenticated \/ checkAuth.role = "admin")
    /\ authLoading' = FALSE
    /\ UNCHANGED <<awaitingRefresh, gvars, fvars, svars, dvars, pvars, statusUpdates, providerMounted,
                   providerMounts, listeners, session, users, user, userProfile,
                   initPending, profileFetches, hasAccess, guardPending, events,
                   roleWrites, downgrade>>

\* -------------------------------------------------------- specifications
InitScreen == InitKind(SrcKinds) /\ AuthIdle /\ DataIdle

NextScreen ==
    \/ Mount
    \/ Cleanup
    \/ Deliver
    \/ Redeliver
    \/ TimerFire
    \/ FetchServer
    \/ FetchResponse
    \/ StoreInsert
    \/ StoreUpdate
    \/ StoreDelete

SpecScreen == InitScreen /\ [][NextScreen]_vars

InitApp == InitKind(AppKinds) /\ AuthIdle /\ DataIdle

NextApp ==
    \/ Mount
    \/ Cleanup
    \/ Deliver
    \/ Redeliver
    \/ FetchServer
    \/ FetchResponse
    \/ StoreInsert
    \/ StoreUpdate
    \/ StoreDelete

SpecApp == InitApp /\ [][NextApp]_vars

\* the app-variant orders screen with its filter control
NextFilter ==
    \/ Mount
    \/ Cleanup
    \/ Deliver
    \/ FetchServer
    \/ FetchResponse
    \/ StoreInsert
    \/ StoreUpdate
    \/ SetFilter

SpecFilter == InitApp /\ [][NextFilter]_vars

\* the tables under their policies, statements issued by any caller
InitPolicy == InitKind({"Dashboard"}) /\ AuthIdle /\ DataInit

NextPolicy ==
    \/ CreateIdentity
    \/ DeleteIdentity
    \/ ProfileInsert
    \/ ProfileUpdate
    \/ ProfileDelete
    \/ MenuInsert
    \/ MenuUpdate
    \/ MenuDelete
    \/ OrderInsert
    \/ OrderUpdate
    \/ OrderDelete

SpecPolicy == InitPolicy /\ [][NextPolicy]_vars

InitAuth == AuthInit /\ InitKind({"Dashboard"}) /\ DataIdle

NextAuth ==
    \/ GetInitialSession
    \/ AuthEvent
    \/ ProfileServer
    \/ ProfileResponse
    \/ RoleWrite
    \/ GuardEffect

SpecAuth == InitAuth /\ [][NextAuth]_vars

NextPanel ==
    \/ GetInitialSession
    \/ AuthEvent
    \/ ProfileServer
    \/ ProfileResponse
    \/ RoleWrite
    \/ GuardEffect
    \/ SetActiveTab

SpecPanel == InitAuth /\ [][NextPanel]_vars

NextSignIn ==
    \/ GetInitialSession
    \/ ProfileServer
    \/ ProfileResponse
    \/ GuardEffect
    \/ SignInSubmit
    \/ SignInServer
    \/ SignInResponse

SpecSignIn == InitAuth /\ [][NextSignIn]_vars

\* effects are flushed before the next update is processed, so the
\* provider's and the form's steps start from a state whose effects have run
NextAdminApp ==
    \/ AppEffect
    \/ LoginEffect
    \/ EffectsIdle /\ GetInitialSession
    \/ EffectsIdle /\ AuthEvent
    \/ EffectsIdle /\ ProfileServer
    \/ EffectsIdle /\ ProfileResponse
    \/ EffectsIdle /\ SignInSubmit
    \/ EffectsIdle /\ SignInServer
    \/ EffectsIdle /\ SignInResponse

SpecAdminApp == InitAuth /\ [][NextAdminApp]_vars

\* --------------------------------------------------- UserManagement form
\* fetchUsers answers: setUsers(data). The query and setUsers are one step
\* here; the rows are the users table's rows at that moment.
UsersFetched ==
    /\ userList # users
    /\ userList' = users
    /\ UNCHANGED <<rvars, awaitingRefresh, gvars, showAddUser, editingUser,
                   formData, roleTouched, userSubmit, svars, avars, dvars,
                   pvars>>

\* the Add User button: setShowAddUser(true)
ShowAddUser ==
    /\ ~showAddUser
    /\ showAddUser' = TRUE
    /\ UNCHANGED <<rvars, awaitingRefresh, gvars, userList, editingUser,
                   formData, roleTouched, userSubmit, svars, avars, dvars,
                   pvars>>

\* handleEdit's role field: role: user.role === 'superadmin' ? 'admin' : user.role
EditRole(role) == IF role = "superadmin" THEN "admin" ELSE role

\* the Edit button of a listed row
HandleEdit ==
    \E u \in Uids :
        /\ userList[u] # NoRow
        /\ formData' = [role |-> EditRole(userList[u])]
        /\ editingUser' = u
        /\ showAddUser' = TRUE
        /\ roleTouched' = FALSE
        /\ UNCHANGED <<rvars, awaitingRefresh, gvars, userList, userSubmit,
                       svars, avars, dvars, pvars>>

\* the role selector's onChange
SetFormRole ==
    \E r \in Roles :
        /\ showAddUser
        /\ r # formData.role
        /\ formData' = [formData EXCEPT !.role = r]
        /\ roleTouched' = TRUE
        /\ UNCHANGED <<rvars, awaitingRefresh, gvars, userList, showAddUser,
                       editingUser, userSubmit, svars, avars, dvars, pvars>>

\* the Cancel button
ResetForm ==
    /\ showAddUser
    /\ formData' = EmptyForm
    /\ editingUser' = None
    /\ showAddUser' = FALSE
    /\ roleTouched' = FALSE
    /\ UNCHANGED <<rvars, awaitingRefresh, gvars, userList, userSubmit,
                   svars, avars, dvars, pvars>>

\* the form's submit button (disabled while loading): the update of the
\* edited row, or the creation of a new user, is sent
HandleSubmit ==
    /\ showAddUser
    /\ userSubmit.st = "idle"
    /\ roleWrites < MaxRoleWrites
    /\ userSubmit' = [st |-> "sent", id |-> editingUser, role |-> formData.role,
                      touched |-> roleTouched, error |-> FALSE]
    /\ UNCHANGED <<rvars, awaitingRefresh, gvars, userList, showAddUser,
                   editingUser, formData, roleTouched, svars, avars, dvars,
                   pvars>>

\* the store applies .update({..., role}).eq('id', id) (no row: nothing is
\* written), or creates the user and inserts its row, or answers an error
SubmitServer ==
    /\ userSubmit.st = "sent"
    /\ roleWrites' = roleWrites + 1
    /\ \/ /\ userSubmit' = [userSubmit EXCEPT !.st = "done", !.error = TRUE]
          /\ UNCHANGED <<users, downgrade>>
       \/ \E u \in Uids :
            /\ IF userSubmit.id # None
               THEN u = userSubmit.id /\ users[u] # NoRow
               ELSE users[u] = NoRow
            /\ users' = [users EXCEPT ![u] = userSubmit.role]
            /\ downgrade' = (IF u # user THEN downgrade
                             ELSE IF Lowered(u, userSubmit.role)
                                  THEN "written" ELSE "none")
            /\ userSubmit' = [userSubmit EXCEPT !.st = "done"]
       \/ /\ userSubmit.id # None
          /\ users[userSubmit.id] = NoRow
          /\ userSubmit' = [userSubmit EXCEPT !.st = "done"]
          /\ UNCHANGED <<users, downgrade>>
    /\ UNCHANGED <<rvars, awaitingRefresh, gvars, userList, showAddUser,
                   editingUser, formData, roleTouched, svars, dvars, pvars,
                   session, user, userProfile, authLoading, initPending,
                   profileFetches, hasAccess, guardPending, events>>

\* handleSubmit resumes: the notification, and after a success resetForm()
\* and fetchUsers() (which answers in UsersFetched)
SubmitResponse ==
    /\ userSubmit.st = "done"
    /\ userSubmit' = NoSubmit
    /\ notifications' = notifications + 1
    /\ IF userSubmit.error
       THEN UNCHANGED <<formData, editingUser, showAddUser, roleTouched>>
       ELSE /\ formData' = EmptyForm
            /\ editingUser' = None
            /\ showAddUser' = FALSE
            /\ roleTouched' = FALSE
    /\ UNCHANGED <<rvars, awaitingRefresh, gvars, userList, avars, dvars,
                   pvars, screen, mounted, mounts, mountedRef, isFetchingRef,
                   channelRef, debounceTimerRef, list, unreadCount, loading,
                   filter, channels, nextChannel, timers, store, nextId,
                   writes, queue, dups, fetches, hist, failed, seenCompleted>>

NextUserForm ==
    \/ UsersFetched
    \/ ShowAddUser
    \/ HandleEdit
    \/ SetFormRole
    \/ ResetForm
    \/ HandleSubmit
    \/ SubmitServer
    \/ SubmitResponse

SpecUserForm == InitAuth /\ [][NextUserForm]_vars

InitStatus ==
    /\ InitKind({"OrderManagement", "OrderManagementApp"})
    /\ AuthIdle
    /\ StatusInit

NextStatus ==
    \/ UpdateOrderStatus
    \/ UpdateServer
    \/ UpdateResponse
    \/ FetchServer
    \/ FetchResponse

SpecStatus == InitStatus /\ [][NextStatus]_vars

InitResolver ==
    /\ InitKind({"Dashboard", "OrderManagementApp"})
    /\ ResolverInit
    /\ DataIdle

NextResolver ==
    \/ ResolverMount
    \/ ResolverUnmount
    \/ GetInitialSession
    \/ AuthEvent
    \/ ProfileServer
    \/ ProfileResponse
    \/ CheckAuthSession
    \/ CheckAuthServer
    \/ CheckAuthResponse

SpecResolver == InitResolver /\ [][NextResolver]_vars

\* the resolver from its mount on, the component staying mounted
NextLoading ==
    \/ ResolverMount
    \/ GetInitialSession
    \/ AuthEvent
    \/ ProfileServer
    \/ ProfileResponse
    \/ CheckAuthSession
    \/ CheckAuthServer
    \/ CheckAuthResponse

SpecLoading == InitResolver /\ [][NextLoading]_vars

\* a pending promise settles and its continuation runs
SpecLoadingLive ==
    /\ SpecLoading
    /\ WF_vars(GetInitialSession)
    /\ WF_vars(ProfileServer)
    /\ WF_vars(ProfileResponse)
    /\ WF_vars(CheckAuthSession)
    /\ WF_vars(CheckAuthServer)
    /\ WF_vars(CheckAuthResponse)

\* the Dashboard alone
InitDash == InitKind({"Dashboard"}) /\ AuthIdle /\ DataIdle

NextDash ==
    \/ Mount
    \/ Cleanup
    \/ Deliver
    \/ Redeliver
    \/ TimerFire
    \/ FetchServer
    \/ FetchResponse
    \/ StoreInsert
    \/ StoreUpdate
    \/ StoreDelete

SpecDash == InitDash /\ [][NextDash]_vars

\* events are delivered, timers fire and requests are answered
SpecDashLive ==
    /\ SpecDash
    /\ WF_vars(Deliver)
    /\ WF_vars(TimerFire)
    /\ WF_vars(FetchServer)
    /\ WF_vars(FetchResponse)

\* ------------------------------------------------------------ properties
Ids == 1..MaxRows
Old(i) == [id |-> i]
Last(h) == h[Len(h)]

\* nothing of the screen is in flight: every response has arrived, every
\* change event has been delivered and no timer is pending
Quiescent == mounted /\ fetches = <<>> /\ queue = <<>> /\ timers = {}

\* C1: across mount, unmount and remount an instance never holds more than
\* one channel that is subscribed and not yet unsubscribed.
C1_OneChannel == Cardinality(channels) <= 1

C1_Witness == mounts >= 2 /\ mounted /\ Cardinality(channels) = 1

\* C5: the local list of OrderManagement and MenuManagement never holds two
\* rows with the same id.
C5_NoDuplicateIds == IsList => \A i \in Ids : CountId(list, i) <= 1

\* the step in which a list handler takes a DELETE for an id the list lacks
DeleteOfAbsent ==
    /\ IsList
    /\ mountedRef
    /\ queue # <<>>
    /\ Head(queue).ev.type = "DELETE"
    /\ ~HasId(list, Head(queue).ev.row.id)
    /\ queue' = Tail(queue) \/ dups' = dups + 1

\* C6: a DELETE for an id that is not in the list leaves the list as it is,
\* and deleting the same id twice gives the list that deleting it once gives.
C6_DeleteIdempotent ==
    /\ [](\A i \in Ids :
            DeleteRow(DeleteRow(list, Old(i)), Old(i)) = DeleteRow(list, Old(i)))
    /\ [][DeleteOfAbsent => list' = list]_vars

C6_Witness ==
    /\ IsList
    /\ hist # <<>>
    /\ Last(hist).type = "DELETE"
    /\ ~Last(hist).present
    /\ list # <<>>

\* the handlers applied INSERT of X to a list without X, then UPDATE of X
InsertedThenUpdated ==
    /\ IsList
    /\ Len(hist) = 2
    /\ hist[1].type = "INSERT"
    /\ ~hist[1].present
    /\ hist[2].type = "UPDATE"
    /\ hist[2].row.id = hist[1].row.id

\* C7: INSERT of X into a list without X followed by UPDATE of X leaves
\* exactly one row of id X, and that row is the row of the UPDATE.
C7_InsertThenUpdate ==
    InsertedThenUpdated =>
        /\ CountId(list, hist[2].row.id) = 1
        /\ \A k \in DOMAIN list :
               list[k].id = hist[2].row.id => list[k] = hist[2].row

C7_Witness == InsertedThenUpdated /\ Len(list) = 2

\* C8: once nothing is in flight and no read has failed, the rows of the
\* local list are exactly the rows of the store's table.
C8_EventuallyConsistent ==
    (IsList /\ Quiescent /\ ~failed) => RowsOf(list) = RowsOf(store)

\* C9: once nothing is in flight, an order that the store holds as completed
\* and whose UPDATE reached the mounted screen is shown as completed.
C9_ShowsCompleted ==
    \A i \in seenCompleted :
        ( /\ screen \in {"Dashboard", "OrderManagement"}
          /\ Quiescent
          /\ ~failed
          /\ \E k \in DOMAIN store :
                 store[k].id = i /\ store[k].status = "completed" )
        => /\ HasId(list, i)
           /\ \A k \in DOMAIN list :
                  list[k].id = i => list[k].status = "completed"

FetchFails ==
    \E k \in DOMAIN fetches :
        /\ fetches[k].st = "done"
        /\ fetches[k].error
        /\ fetches' = RemoveAt(fetches, k)

\* the step in which a fetch resumes after any of its queries failed
RefreshFails ==
    \E k \in DOMAIN fetches :
        /\ fetches[k].st = "done"
        /\ fetches[k].error \/ fetches[k].recentError
        /\ fetches' = RemoveAt(fetches, k)

\* C11: while the screen is unmounted no step (a late fetch response, a late
\* change event) changes its list, its unread count or its loading flag.
C11_LateArrival ==
    [][~mounted => UNCHANGED <<list, unreadCount, loading>>]_vars

\* C12: when the fetch of a mounted OrderManagement or MenuManagement fails,
\* a notification is emitted, the list is left as it was (empty stays empty),
\* loading is over and the in-flight flag is cleared.
C12_FetchFailure ==
    [][(IsList /\ mountedRef /\ FetchFails) =>
          /\ notifications' = notifications + 1
          /\ list' = list
          /\ ~loading'
          /\ ~isFetchingRef']_vars

\* a fetch failed on the mounted instance, nothing was ever listed, and the
\* next effect run has issued a new request
C12_Witness ==
    /\ IsList
    /\ notifications >= 1
    /\ list = <<>>
    /\ ~loading
    /\ mounted
    /\ mounts >= 2
    /\ \E k \in DOMAIN fetches : fetches[k].st = "sent"

\* C13: when a refresh of a mounted screen that shows rows fails, the rows
\* shown stay as they were and a notification is emitted.
C13_LastKnownGood ==
    [][(mountedRef /\ list # <<>> /\ RefreshFails) =>
          /\ list' = list
          /\ notifications' = notifications + 1]_vars

\* the step in which the filter control changes the filter
FilterChanges == filter' # filter

\* C14: changing the filter changes nothing but the filter (no list change,
\* no request, no write), and the displayed list is exactly the rows of the
\* list whose status is the filter, in the list's order (all rows for "all").
C14_FilterIsProjection ==
    /\ [][FilterChanges =>
            UNCHANGED <<list, fetches, isFetchingRef, store, queue, writes,
                        loading, channels>>]_vars
    /\ [](LET shown == filteredOrders(list, filter) IN
          /\ \A k \in DOMAIN shown :
                 filter = "all" \/ shown[k].status = filter
          /\ \A k \in DOMAIN list :
                 (filter = "all" \/ list[k].status = filter)
                     => \E j \in DOMAIN shown : shown[j] = list[k]
          /\ Len(shown) =
                 Cardinality({k \in DOMAIN list :
                                 filter = "all" \/ list[k].status = filter}))

\* the filter hides one of two listed orders
C14_Witness ==
    /\ screen = "OrderManagementApp"
    /\ filter = "pending"
    /\ Len(list) = 2
    /\ Len(filteredOrders(list, filter)) = 1

\* the issuer of the statement of this step holds role admin before the step
IssuedByAdmin == \E p \in profiles : p.id = call'.by /\ p.role = "admin"

HeldRole(rows, u, r) == \E p \in rows : p.id = u /\ p.role = r

\* C15: a step that changes the role of a profile row, or that leaves a
\* profile with role admin that had none before, is a statement issued by a
\* caller whose own profile role is admin.
C15_RoleOnlyByAdmin ==
    [][\A u \in Uids :
          ( \/ HeldRole(profiles, u, "user") /\ HeldRole(profiles', u, "admin")
            \/ HeldRole(profiles, u, "admin") /\ HeldRole(profiles', u, "user")
            \/ /\ \A p \in profiles : p.id # u
               /\ HeldRole(profiles', u, "admin") )
          => IssuedByAdmin]_vars

\* C16: a DELETE on menu_items by a caller whose profile role is not admin
\* (the anon key included) removes no row, and no other step removes one.
C16_MenuDeleteNeedsAdmin ==
    [][/\ (call'.op = "menu_items_delete" /\ ~IssuedByAdmin)
              => menu_items' = menu_items
       /\ (\E m \in menu_items : \A n \in menu_items' : n.id # m.id)
              => IssuedByAdmin]_vars

\* a signed-in caller without role admin tried to delete an existing item
C16_Witness ==
    /\ call.op = "menu_items_delete"
    /\ call.by \in identities
    /\ HeldRole(profiles, call.by, "user")
    /\ ~call.changed
    /\ menu_items # {}

\* C17: an INSERT into orders by the anon key adds the row; a step that
\* changes the status of an order or removes an order is a statement issued
\* by a caller whose profile role is admin.
C17_OrdersByAdminOnly ==
    [][/\ (call'.op = "orders_insert" /\ call'.by = None /\ orders' # orders)
              => /\ Cardinality(orders') = Cardinality(orders) + 1
                 /\ orders \subseteq orders'
       /\ (call'.op = "orders_insert" /\ call'.by = None) => call'.changed
       /\ (\E o \in orders : o \notin orders') => IssuedByAdmin]_vars

\* the anon key placed an order and then failed to change its status
C17_Witness ==
    /\ call.op = "orders_update"
    /\ call.by = None
    /\ ~call.changed
    /\ \E o \in orders : o.status = "pending"

\* C18: every identity has exactly one profile row and every profile row
\* belongs to an identity.
C18_OneProfilePerIdentity ==
    /\ \A u \in identities : Cardinality({p \in profiles : p.id = u}) = 1
    /\ \A p \in profiles : p.id \in identities

\* the decision the spec asks of the guard: the profile is there and its
\* role is the required role or above it, customer < admin < superadmin
Rank(role) == CASE role = "customer" -> 1
                [] role = "admin" -> 2
                [] role = "superadmin" -> 3
                [] OTHER -> 0

Allowed(profile, requiredRole) ==
    profile # NoProfile /\ Rank(profile.role) >= Rank(requiredRole)

\* C2: hasPermission and the guard's decision are true exactly when the
\* resolved profile is there and its role is the required role or above.
C2_Decision ==
    \A r \in RequiredRoles :
        /\ hasPermission(userProfile, r) = Allowed(userProfile, r)
        /\ (~authLoading /\ ~guardPending[r])
               => hasAccess[r] = Allowed(userProfile, r)

\* the step in which fetchUserProfile resumes with an error or without a row
ProfileFetchFails ==
    \E k \in DOMAIN profileFetches :
        /\ profileFetches[k].st = "done"
        /\ ~profileFetches[k].ok
        /\ profileFetches' = RemoveAt(profileFetches, k)

\* C3: after a profile fetch that failed or found no row the resolved
\* profile is null, whatever it was before.
C3_FailClosed == [][ProfileFetchFails => userProfile' = NoProfile]_vars

\* C4: the role of the signed-in admin was lowered below the required role,
\* a session event for them arrived after the write and has been handled to
\* its end, and the guard's effect has run: the guard and hasPermission deny.
C4_Revoked ==
    \A r \in RequiredRoles :
        ( /\ downgrade = "notified"
          /\ users[user] \in Roles
          /\ Rank(users[user]) < Rank(r)
          /\ profileFetches = <<>>
          /\ ~initPending
          /\ ~authLoading
          /\ ~guardPending[r] )
        => ~hasAccess[r] /\ ~hasPermission(userProfile, r)

\* the step in which a sign-in whose profile is missing, unfetchable or not
\* an admin's comes to its end
DeniedSignInEnds ==
    /\ signIn.st = "done"
    /\ signIn'.st = "ended"
    /\ ~signIn.ok \/ SignInDenied(signIn.data)

\* C19: a sign-in with valid credentials by an identity whose profile is
\* missing, cannot be fetched or is not an admin's ends with the session of
\* the identity store signed out, an error surfaced, the success callback not
\* called, and the application not in the authenticated-admin state
C19_DeniedSignInSignsOut ==
    [][DeniedSignInEnds =>
          /\ session' = None
          /\ signIn'.outcome = "error"
          /\ ~(user' # None /\ hasPermission(userProfile', "admin"))]_vars

\* the role of the signed-in admin was lowered, a session event for them
\* followed, the resolver now holds the row the users table has for them, and
\* the guard has run for it
ProfileRepublished ==
    /\ downgrade = "notified"
    /\ user # None
    /\ userProfile = [id |-> user, role |-> users[user]]
    /\ ~guardPending["admin"]

\* C20: UserManagement is rendered only while the resolved profile has role
\* superadmin; a superadmin with the users tab open who is downgraded to
\* admin no longer sees it once the resolver has republished the profile
C20_UsersOnlyForSuperadmin ==
    (ProfileRepublished /\ UsersRendered)
        => hasPermission(userProfile, "superadmin")

\* the step in which the store answers the status update k of an admin
\* without an error
AdminUpdateAnswered(k) ==
    /\ k \in DOMAIN statusUpdates
    /\ Len(statusUpdates') = Len(statusUpdates)
    /\ statusUpdates[k].st = "sent"
    /\ statusUpdates'[k].st = "done"
    /\ ~statusUpdates'[k].error
    /\ IsAdmin(statusUpdates[k].by)

\* C21: updateOrderStatus(id, s) of an admin sets the status of order id to
\* s for every pair (current status, s) of the enumeration, the final
\* statuses included; the client offers every other status for every order
C21_AnyTransition ==
    [][/\ \A o \in orders : \A status \in StatusOptions \ {o.status} :
              StatusOffered(o.status, status)
       /\ \A k \in 1..MaxInflight :
              AdminUpdateAnswered(k) =>
                  \A o \in orders' : o.id = statusUpdates[k].id
                                        => o.status = statusUpdates[k].status]_vars

\* an admin moved an order out of cancelled
C21_Witness ==
    \E k \in DOMAIN statusUpdates :
        /\ statusUpdates[k].st = "done"
        /\ ~statusUpdates[k].error
        /\ statusUpdates[k].was = "cancelled"
        /\ statusUpdates[k].status = "pending"
        /\ IsAdmin(statusUpdates[k].by)
        /\ \E o \in orders : o.id = statusUpdates[k].id /\ o.status = "pending"

\* C22: at every moment the session resolver has at most one session-change
\* listener registered, over any sequence of mount, unmount and remount, and
\* exactly one while the resolver is mounted
C22_OneListener ==
    /\ Cardinality(listeners) <= 1
    /\ providerMounted => Cardinality(listeners) = 1

\* C23: in Dashboard every change event received while the screen stays
\* mounted is eventually followed by a fetchDashboardData run that starts
\* after the event was received, also when a refresh is in flight as the
\* event arrives or as the debounce timer fires
C23_TrailingRefresh == awaitingRefresh ~> ~awaitingRefresh

\* C24: for each screen instance at most one full refresh of the watched
\* table is in flight at any time
C24_OneRefreshInFlight == Len(fetches) <= 1

\* the step in which the Dashboard handler runs for a change event
EventArrives ==
    /\ queue # <<>>
    /\ mounted' = mounted
    /\ queue' = Tail(queue) \/ dups' = dups + 1

\* the step in which a pending timer fires
TimerFires ==
    /\ timers' # timers
    /\ timers' \subseteq timers
    /\ mounted' = mounted

\* C25: in Dashboard at most one debounce timer is pending at any time; an
\* event that arrives before the timer of the previous one fired replaces
\* that timer and calls nothing, so the burst ends in the one timer whose
\* firing makes the one fetchDashboardData call
C25_OneTimer ==
    [][/\ Cardinality(timers') <= 1
       /\ EventArrives => fetches' = fetches /\ timers' = {debounceTimerRef'}
       /\ TimerFires => timers' = {} /\ Len(fetches') <= Len(fetches) + 1]_vars

\* an event arrived while the timer of the previous event was pending
C25_Witness == mounted /\ debounceTimerRef = 2 /\ timers = {2}

\* C26: in AuthProvider, whenever no profile fetch is in flight, userProfile
\* is non-null only if user is non-null and userProfile.id equals user.id,
\* for every interleaving of session events with profile-fetch responses
C26_ProfileOfUser ==
    (profileFetches = <<>> /\ userProfile # NoProfile)
        => (user # None /\ userProfile.id = user)

\* C27: in AdminApp, whenever loading is false and all effects have run,
\* AdminPanel is rendered only if user is non-null and userProfile.role is
\* admin or superadmin
C27_PanelOnlyForAdmin ==
    (~authLoading /\ EffectsIdle /\ ~showLogin)
        => (user # None /\ hasPermission(userProfile, "admin"))

\* C28: in OrderManagement, whenever the screen is mounted (handlers are
\* steps, so none is mid-execution in a state), unreadCount is the number
\* of rows of the local orders list whose is_read is false
C28_UnreadCountMatchesList ==
    (screen = "OrderManagement" /\ mounted) => unreadCount = Unread(list)

\* the store answers the update of a row opened with handleEdit whose role
\* selector was left alone
UntouchedEditSaved ==
    /\ userSubmit.st = "sent"
    /\ userSubmit'.st = "done"
    /\ ~userSubmit'.error
    /\ userSubmit.id # None
    /\ ~userSubmit.touched

\* C29: opening a user with handleEdit and saving with handleSubmit without
\* touching the role selector leaves that user's role unchanged, whatever
\* the role (customer, admin, superadmin)
C29_EditKeepsRole ==
    [][UntouchedEditSaved => users'[userSubmit.id] = users[userSubmit.id]]_vars

====
